---- MODULE Spec2Model ----
(***************************************************************************)
(* Nested resource expansion of nss-json-server (src/src/nested-expand.ts) *)
(* as a state machine: a GET request goes through the middleware's request *)
(* phase, the json-server routing layer, and the wrapped res.send.          *)
(*                                                                         *)
(* Representation.  A JavaScript string is the sequence of its characters  *)
(* (each a one-character TLA+ string), so concatenation, endsWith, slice,  *)
(* split and join are computed.  A JSON value is a tagged record           *)
(* [t |-> tag, v |-> payload]; an object's payload is a function from its  *)
(* keys to values.  Key order of objects is not modelled, except for the   *)
(* expansion tree, whose keys the code iterates in insertion order.        *)
(***************************************************************************)
EXTENDS Integers, Sequences, FiniteSets, TLC

\* ------------------------------------------------------------ characters
DigitChars == <<"0", "1", "2", "3", "4", "5", "6", "7", "8", "9">>

Dot == "."

\* `const name = value; rest`: the value is computed once, before rest, and
\* named in rest.
Bind(value, Rest(_)) == CHOOSE r \in { Rest(y) : y \in {value} } : TRUE

\* ---------------------------------------------------------------- values
Undefined == [t |-> "undefined", v |-> 0]

NaN == [t |-> "nan", v |-> 0]

Num(n) == [t |-> "num", v |-> n]

Str(s) == [t |-> "str", v |-> s]

Obj(f) == [t |-> "obj", v |-> f]

Arr(s) == [t |-> "arr", v |-> s]

EmptyObj == Obj(<<>>)

\* JavaScript truthiness: `if (x)`, `!x`.
Truthy(x) ==
    CASE x.t = "undefined" -> FALSE
      [] x.t = "nan" -> FALSE
      [] x.t = "num" -> x.v # 0
      [] x.t = "str" -> x.v # <<>>
      [] OTHER -> TRUE

\* `typeof x === 'object'` for a truthy x.
IsObjectType(x) == x.t \in {"obj", "arr"}

\* Property read o[k]; a missing key, or a read on an array, gives undefined.
Get(o, k) == IF o.t = "obj" /\ k \in DOMAIN o.v THEN o.v[k] ELSE Undefined

\* Property write o[k] = val.
Put(o, k, val) == Obj((k :> val) @@ o.v)

\* Nested write o[k1][k2] = val.
PutIn(o, k1, k2, val) == Put(o, k1, Put(Get(o, k1), k2, val))

\* ------------------------------------------------------ string functions
RECURSIVE Dec(_)
\* Decimal numeral of a natural number.
Dec(n) == IF n < 10 THEN <<DigitChars[n + 1]>>
          ELSE Dec(n \div 10) \o <<DigitChars[(n % 10) + 1]>>

IsDigit(c) == \E i \in 1..10 : DigitChars[i] = c

DigitVal(c) == (CHOOSE i \in 1..10 : DigitChars[i] = c) - 1

RECURSIVE ParseDec(_, _)
ParseDec(s, acc) == IF s = <<>> THEN acc
                    ELSE ParseDec(Tail(s), 10 * acc + DigitVal(Head(s)))

\* String(x), x.toString()
JsString(x) ==
    CASE x.t = "num" -> Dec(x.v)
      [] x.t = "str" -> x.v
      [] x.t = "nan" -> <<"N", "a", "N">>
      [] x.t = "undefined" -> <<"u", "n", "d", "e", "f", "i", "n", "e", "d">>
      [] OTHER -> <<"[", "o", "b", "j", "e", "c", "t", " ", "O", "b", "j", "e", "c", "t", "]">>

\* Number(x)
JsNumber(x) ==
    CASE x.t = "num" -> x
      [] x.t = "str" -> IF \A i \in 1..Len(x.v) : IsDigit(x.v[i])
                        THEN Num(ParseDec(x.v, 0)) ELSE NaN
      [] OTHER -> NaN

EndsWith(s, c) == Len(s) > 0 /\ s[Len(s)] = c

\* s.slice(0, -1)
DropLast(s) == IF Len(s) = 0 THEN s ELSE SubSeq(s, 1, Len(s) - 1)

HasDot(s) == \E i \in 1..Len(s) : s[i] = Dot

RECURSIVE Split(_)
\* s.split('.')
Split(s) ==
    IF ~HasDot(s) THEN <<s>>
    ELSE Bind(CHOOSE i \in 1..Len(s) : s[i] = Dot /\ \A j \in 1..(i - 1) : s[j] # Dot,
              LAMBDA i : <<SubSeq(s, 1, i - 1)>> \o Bind(SubSeq(s, i + 1, Len(s)), Split))

RECURSIVE Join(_)
\* parts.join('.')
Join(parts) ==
    IF Len(parts) = 0 THEN <<>>
    ELSE IF Len(parts) = 1 THEN parts[1]
    ELSE parts[1] \o <<Dot>> \o Bind(Tail(parts), Join)

\* ----------------------------------------------------------------- names
IdKey == <<"i", "d">>

FkSuffix == <<"I", "d">>

StateName == <<"s", "t", "a", "t", "e">>

CountryName == <<"c", "o", "u", "n", "t", "r", "y">>

CountrysName == CountryName \o <<"s">>

CountriesName == DropLast(CountryName) \o <<"i", "e", "s">>

CountryIdKey == CountryName \o FkSuffix

\* `${resourceName}Id`
ForeignKey(name) == name \o FkSuffix

\* The record's own id where it has no foreign key for the relation.
ForeignKeyOrOwnId(record, name) ==
    IF Get(record, ForeignKey(name)) = Undefined THEN Get(record, IdKey)
    ELSE Get(record, ForeignKey(name))

\* result[foreignKey]
ForeignKeyValue(record, name) == Get(record, ForeignKey(name))

\* resourceName + 's'
PluralS(name) == name \o <<"s">>

\* resourceName.slice(0, -1) + 'ies'
PluralIes(name) == DropLast(name) \o <<"i", "e", "s">>

\* ----------------------------------------------------------------- store
\* db.get(name): the collection, a sequence of records; a missing collection
\* behaves in every call the code makes (size, getById, find) as an empty one.
DbGet(db, name) == IF name \in DOMAIN db THEN db[name] ELSE <<>>

\* collection.size().value()
Size(coll) == Len(coll)

FirstIndex(coll, P(_)) ==
    IF \E i \in 1..Len(coll) : P(coll[i])
    THEN CHOOSE i \in 1..Len(coll) : P(coll[i]) /\ \A j \in 1..(i - 1) : ~P(coll[j])
    ELSE 0

\* lodash-id getById: the first document whose id has the same string form.
GetById(coll, id) ==
    LET Hit(doc) == IdKey \in DOMAIN doc.v /\ JsString(doc.v[IdKey]) = JsString(id)
    IN Bind(FirstIndex(coll, Hit), LAMBDA i : IF i = 0 THEN Undefined ELSE coll[i])

\* collection.find({ id: x }): the first document whose id is x, same type.
FindById(coll, x) ==
    LET Hit(doc) == IdKey \in DOMAIN doc.v /\ doc.v[IdKey] = x
    IN Bind(FirstIndex(coll, Hit), LAMBDA i : IF i = 0 THEN Undefined ELSE coll[i])

\* -------------------------------------------------------- expansion tree
\* A Record<string, string[]> whose keys are iterated in insertion order:
\* a sequence of [k |-> key, r |-> residual paths].
TreeHas(tree, key) == \E i \in 1..Len(tree) : tree[i].k = key

TreeGet(tree, key) == tree[CHOOSE i \in 1..Len(tree) : tree[i].k = key].r

\* if (!tree[key]) tree[key] = []
TreeEnsure(tree, key) ==
    IF TreeHas(tree, key) THEN tree ELSE Append(tree, [k |-> key, r |-> <<>>])

\* tree[key].push(path)
TreePush(tree, key, path) ==
    [i \in 1..Len(tree) |->
        IF tree[i].k = key THEN [k |-> key, r |-> Append(tree[i].r, path)]
        ELSE tree[i]]

RECURSIVE NextLevelFrom(_, _, _)
NextLevelFrom(residuals, i, acc) ==
    IF i > Len(residuals) THEN acc
    ELSE Bind(Split(residuals[i]), LAMBDA parts :
         Bind(TreePush(TreeEnsure(acc, parts[1]), parts[1],
                       IF Len(parts) > 1 THEN Join(Tail(parts)) ELSE <<>>),
              LAMBDA pushed : NextLevelFrom(residuals, i + 1, pushed)))

\* The nextLevelExpands built from nestedExpands[resourceName].
NextLevelExpands(residuals) == NextLevelFrom(residuals, 1, <<>>)

\* nextLevelExpands[nextResource].every(item => item === '')
IsLastLevel(residuals) == \A i \in 1..Len(residuals) : residuals[i] = <<>>

\* ResolveCollection with the 'ies' form tried before the 's' form.
ResolveIesFirst(db, name) ==
    Bind(DbGet(db, name), LAMBDA c0 :
    Bind(IF Size(c0) = 0 /\ EndsWith(name, "y") THEN DbGet(db, PluralIes(name)) ELSE c0,
         LAMBDA c1 : IF Size(c1) = 0 THEN DbGet(db, PluralS(name)) ELSE c1))

\* ---------------------------------------------------- collection lookup
\* The three-step choice of a collection: exact name, name + 's', and for a
\* name ending in 'y' the name with 'y' replaced by 'ies'.
ResolveCollection(db, name) ==
    Bind(DbGet(db, name), LAMBDA c0 :
    Bind(IF Size(c0) = 0 THEN DbGet(db, PluralS(name)) ELSE c0, LAMBDA c1 :
         IF Size(c1) = 0 /\ EndsWith(name, "y")
         THEN DbGet(db, PluralIes(name)) ELSE c1))

\* LookupTop that settles for the first record when none has the id.
LookupTopOrFirst(coll, fk) ==
    Bind(GetById(coll, fk), LAMBDA r0 :
         IF Truthy(r0) THEN r0
         ELSE Bind(FindById(coll, Str(JsString(fk))), LAMBDA r1 :
                   IF Truthy(r1) \/ Size(coll) = 0 THEN r1 ELSE coll[1]))

\* A lookup that takes the last record of the collection, whatever the key.
LookupTopLast(coll, fk) == IF Size(coll) = 0 THEN Undefined ELSE coll[Size(coll)]

\* Top level: getById, then find by the id as a string.
LookupTop(coll, fk) ==
    Bind(GetById(coll, fk), LAMBDA r0 :
         IF Truthy(r0) THEN r0 ELSE FindById(coll, Str(JsString(fk))))

\* Nested level: getById, then find by string, then find by number.
LookupNested(coll, fk) ==
    Bind(LookupTop(coll, fk), LAMBDA r1 :
         IF Truthy(r1) THEN r1 ELSE FindById(coll, JsNumber(fk)))

\* The first non-empty of the collections country, countrys, countries; the
\* last of them when all are empty.
CountryCollection(db) ==
    Bind(DbGet(db, CountryName), LAMBDA c0 :
    Bind(IF Size(c0) = 0 THEN DbGet(db, CountrysName) ELSE c0, LAMBDA c1 :
         IF Size(c1) = 0 THEN DbGet(db, CountriesName) ELSE c1))

\* The name under which ResolveCollection found its collection
\* (actualResourceName, actualNextResourceName).
ResolveName(db, name) ==
    IF Size(DbGet(db, name)) > 0 THEN name
    ELSE IF Size(DbGet(db, PluralS(name))) > 0 THEN PluralS(name)
    ELSE IF EndsWith(name, "y") /\ Size(DbGet(db, PluralIes(name))) > 0 THEN PluralIes(name)
    ELSE name

\* The name of the collection CountryCollection yields.
CountryCollectionName(db) ==
    IF Size(DbGet(db, CountryName)) > 0 THEN CountryName
    ELSE IF Size(DbGet(db, CountrysName)) > 0 THEN CountrysName
    ELSE CountriesName

\* --------------------------------------------------------- shared objects
\* getById(...).value() and find(...).value() hand out the store's own
\* object, not a copy.  An activation keeps, in `held`, which sub-objects of
\* its result are objects of the store (the path in result, the collection
\* and the id of the record), and in `wrote` the property writes it made into
\* such an object: those are writes into the store.
\* result[path] is assigned: what hung at it or below it is no longer in
\* result.
Released(held, path) ==
    { h \in held : ~(/\ Len(path) <= Len(h.path)
                     /\ SubSeq(h.path, 1, Len(path)) = path) }

\* result[key] = record, the store's object itself.
AttachShared(act, key, record, name) ==
    [act EXCEPT !.result = Put(act.result, key, record),
                !.held = Released(act.held, <<key>>)
                         \cup {[path |-> <<key>>, name |-> name,
                                 id |-> Get(record, IdKey)]}]

\* AttachCopy that puts the record in the place of the foreign key.
AttachOverKey(act, key, record, name) ==
    [act EXCEPT !.result = Put(act.result, ForeignKey(key), record),
                !.held = Released(act.held, <<ForeignKey(key)>>)]

\* result[key] = _.cloneDeep(record)
AttachCopy(act, key, record, name) ==
    [act EXCEPT !.result = Put(act.result, key, record),
                !.held = Released(act.held, <<key>>)]

\* The writes into the store made by `holder[key] = val`, holder being
\* result[k1].
StoreWrites(held, k1, key, val) ==
    IF \E h \in held : h.path = <<k1>>
    THEN Bind(CHOOSE h \in held : h.path = <<k1>>, LAMBDA h :
              <<[name |-> h.name, id |-> h.id, key |-> key, val |-> val]>>)
    ELSE <<>>

\* result[k1][k2] = record, the record being the store's object.
AttachIn(act, k1, k2, record, name) ==
    [act EXCEPT !.result = PutIn(act.result, k1, k2, record),
                !.wrote = act.wrote \o StoreWrites(act.held, k1, k2, record),
                !.held = Released(act.held, <<k1, k2>>)
                             \cup {[path |-> <<k1, k2>>, name |-> name,
                                   id |-> Get(record, IdKey)]}]

\* The store after one write into a record it holds.
StoreWrite(db, w) ==
    [n \in DOMAIN db |->
        IF n # w.name THEN db[n]
        ELSE [i \in 1..Len(db[n]) |->
                 IF Get(db[n][i], IdKey) = w.id THEN Put(db[n][i], w.key, w.val)
                 ELSE db[n][i]]]

RECURSIVE StoreAfter(_, _)
StoreAfter(db, writes) ==
    IF writes = <<>> THEN db
    ELSE StoreAfter(StoreWrite(db, Head(writes)), Tail(writes))

\* "Special case for country expansion": when the resource is `state` and
\* the next level asks for `country`, the country is looked up in the first
\* non-empty of country, countrys, countries and written into the state.
DirectCountry(act, resourceName, nextLevel, db) ==
    IF /\ resourceName = StateName
       /\ TreeHas(nextLevel, CountryName)
       /\ Truthy(Get(Get(act.result, resourceName), CountryIdKey))
    THEN Bind(CountryCollection(db), LAMBDA countryCollection :
         Bind(GetById(countryCollection, Get(Get(act.result, resourceName), CountryIdKey)),
              LAMBDA countryResource :
              IF Size(countryCollection) > 0 /\ Truthy(countryResource)
              THEN AttachIn(act, resourceName, CountryName, countryResource,
                            CountryCollectionName(db))
              ELSE act))
    ELSE act

\* "For the final level, we need to explicitly look up the country".
FinalCountry(act, resourceName, nextResource, db) ==
    IF nextResource = CountryName /\ Truthy(Get(Get(act.result, resourceName), CountryIdKey))
    THEN Bind(CountryCollection(db), LAMBDA countryCollection :
         Bind(GetById(countryCollection, Get(Get(act.result, resourceName), CountryIdKey)),
              LAMBDA countryResource :
              IF Size(countryCollection) > 0 /\ Truthy(countryResource)
              THEN AttachIn(act, resourceName, nextResource, countryResource,
                            CountryCollectionName(db))
              ELSE act))
    ELSE act

\* ---------------------------------------------------------------- engine
\* processNestedExpandsForItem calls itself.  The recursion is run on an
\* explicit stack of activations, one block of the function's body per step.
MaxDepth == 5

\* The guard that makes processNestedExpandsForItem return its item as is.
Refused(item, depth) == ~Truthy(item) \/ ~IsObjectType(item) \/ depth > MaxDepth

\* An activation of processNestedExpandsForItem(item, nestedExpands, db,
\* depth): result is the clone it fills, i the position of the outer forEach
\* in Object.keys(nestedExpands), nextLevel the nextLevelExpands built for
\* that key, j the position of the inner forEach in its keys (0: the outer
\* key is not entered yet), expanded whether json-server had expanded it.
\* result is a deep copy: nothing in it is an object of the store.
Activation(item, nestedExpands, depth) ==
    [result |-> item, nestedExpands |-> nestedExpands, depth |-> depth,
     i |-> 1, j |-> 0, nextLevel |-> <<>>, expanded |-> FALSE,
     held |-> {}, wrote |-> <<>>]

\* The activation is at its return statement.
Returns(act) == Refused(act.result, act.depth) \/ act.i > Len(act.nestedExpands)

ResourceName(act) == act.nestedExpands[act.i].k

NextResourceName(act) == act.nextLevel[act.j].k

\* NextKey that leaves the outer forEach altogether.
LeaveKeys(act) ==
    [act EXCEPT !.i = Len(act.nestedExpands) + 1, !.j = 0, !.nextLevel = <<>>,
                !.expanded = FALSE]

\* The outer forEach moves to its next key.
NextKey(act) ==
    [act EXCEPT !.i = act.i + 1, !.j = 0, !.nextLevel = <<>>, !.expanded = FALSE]

\* The inner forEach moves to its next key, and past its last key the outer
\* forEach moves on.
Advance(act) ==
    IF act.j < Len(act.nextLevel) THEN [act EXCEPT !.j = act.j + 1] ELSE NextKey(act)

\* result[resourceName] is an object: nextLevelExpands is built from the
\* residual paths, the country special case runs, and the inner forEach
\* starts; with no residual path the key is done.
EnterNextLevel(act, expanded, db) ==
    IF Len(act.nestedExpands[act.i].r) = 0 THEN NextKey(act)
    ELSE Bind(NextLevelExpands(act.nestedExpands[act.i].r), LAMBDA nextLevel :
              [DirectCountry(act, ResourceName(act), nextLevel, db)
                  EXCEPT !.nextLevel = nextLevel, !.j = 1, !.expanded = expanded])

\* One turn of Object.keys(nestedExpands).forEach(resourceName => ...) up to
\* the inner forEach: the resource json-server has expanded is taken as it
\* is; otherwise foreign key, collection, record and attachment of a copy.
StartResource(act, db) ==
    LET resourceName == ResourceName(act)
        foreignKeyValue == ForeignKeyValue(act.result, resourceName)
        collection == ResolveCollection(db, resourceName)
        relatedResource == LookupTop(collection, foreignKeyValue)
    IN IF Truthy(Get(act.result, resourceName)) /\ IsObjectType(Get(act.result, resourceName))
       THEN EnterNextLevel(act, TRUE, db)
       ELSE IF /\ Truthy(foreignKeyValue)
               /\ Size(collection) > 0
               /\ Truthy(relatedResource)
       THEN Bind(AttachCopy(act, resourceName, relatedResource,
                            ResolveName(db, resourceName)),
                 LAMBDA attached : EnterNextLevel(attached, FALSE, db))
       ELSE NextKey(act)

\* The record for nextResource.  Under a resource json-server had expanded
\* it is read from db.get(nextResource) by getById alone; under a resource
\* the engine attached, the collection is resolved in three steps and the id
\* is tried in three forms.
NextRelated(act, nextForeignKeyValue, db) ==
    IF act.expanded
    THEN GetById(DbGet(db, NextResourceName(act)), nextForeignKeyValue)
    ELSE Bind(ResolveCollection(db, NextResourceName(act)), LAMBDA nextCollection :
              IF Size(nextCollection) > 0
              THEN LookupNested(nextCollection, nextForeignKeyValue)
              ELSE Undefined)

\* The collection NextRelated read its record from.
NextRelatedName(act, db) ==
    IF act.expanded THEN NextResourceName(act) ELSE ResolveName(db, NextResourceName(act))

\* The recursive call processNestedExpandsForItem(result[resourceName],
\* { [nextResource]: nextLevelExpands[nextResource] }, db, depth + 1).
RecursiveCall(act) ==
    Activation(Get(act.result, ResourceName(act)),
               <<[k |-> NextResourceName(act), r |-> act.nextLevel[act.j].r]>>,
               act.depth + 1)

\* What follows the write result[resourceName][nextResource] = related:
\* at the final level the country lookup, otherwise the recursive call.
\* Yields the activations now on top of the stack: this one, and above it
\* the one it called, if any.
FurtherNested(act, db) ==
    IF Len(act.nextLevel[act.j].r) = 0 THEN <<Advance(act)>>
    ELSE IF IsLastLevel(act.nextLevel[act.j].r)
    THEN <<Advance(FinalCountry(act, ResourceName(act), NextResourceName(act), db))>>
    ELSE <<act, RecursiveCall(act)>>

\* One turn of Object.keys(nextLevelExpands).forEach(nextResource => ...).
NextResource(act, db) ==
    Bind(ForeignKeyValue(Get(act.result, ResourceName(act)), NextResourceName(act)),
         LAMBDA nextForeignKeyValue :
    Bind(NextRelated(act, nextForeignKeyValue, db), LAMBDA nextRelatedResource :
         IF Truthy(nextForeignKeyValue) /\ Truthy(nextRelatedResource)
         THEN Bind(AttachIn(act, ResourceName(act), NextResourceName(act),
                            nextRelatedResource, NextRelatedName(act, db)),
                   LAMBDA attached : FurtherNested(attached, db))
         ELSE <<Advance(act)>>))

\* result[resourceName] = processedItem, in the caller: the objects of the
\* store that hang in processedItem now hang below result[resourceName].
Received(caller, callee) ==
    [caller EXCEPT
        !.result = Put(caller.result, ResourceName(caller), callee.result),
        !.wrote = caller.wrote \o callee.wrote,
        !.held = Released(caller.held, <<ResourceName(caller)>>)
                 \cup { [h EXCEPT !.path = <<ResourceName(caller)>> \o h.path] :
                        h \in callee.held }]

\* ReturnTo with the caller left on the key it called for.
ReturnToSameKey(caller, callee) == Received(caller, callee)

\* The call returns: the caller takes the value and its inner forEach moves on.
ReturnTo(caller, callee) == Bind(Received(caller, callee), LAMBDA received : Advance(received))

Top(stack) == stack[Len(stack)]

Below(stack) == SubSeq(stack, 1, Len(stack) - 1)

\* The stack after the next block of the activation on top.
EngineStep(stack, db) ==
    IF Returns(Top(stack))
    THEN Append(Below(Below(stack)), ReturnTo(Top(Below(stack)), Top(stack)))
    ELSE IF Top(stack).j = 0
    THEN Append(Below(stack), StartResource(Top(stack), db))
    ELSE Below(stack) \o NextResource(Top(stack), db)

RECURSIVE WritesOf(_)
\* The writes into the store made by the activations of a stack.
WritesOf(stack) ==
    IF stack = <<>> THEN <<>> ELSE WritesOf(Below(stack)) \o Top(stack).wrote

\* The store once the activations of `stack` have written what they wrote.
StoreOf(db, stack) == StoreAfter(db, WritesOf(stack))

RECURSIVE Run(_, _)
\* The value the bottom activation returns.
Run(stack, db) ==
    IF Len(stack) = 1 /\ Returns(stack[1]) THEN stack[1].result
    ELSE Run(EngineStep(stack, db), db)

ProcessNestedExpandsForItem(item, nestedExpands, db, depth) ==
    Run(<<Activation(item, nestedExpands, depth)>>, db)

\* The items processNestedExpands hands to processNestedExpandsForItem, in
\* order: none when it returns its data as it is.
ItemsOf(data, nestedExpands) ==
    IF ~Truthy(data) \/ Len(nestedExpands) = 0 THEN <<>>
    ELSE IF data.t = "arr" THEN data.v
    ELSE <<data>>

\* Assemble with the processed items of a list in reverse order.
AssembleReversed(data, nestedExpands, results) ==
    IF ~Truthy(data) \/ Len(nestedExpands) = 0 THEN data
    ELSE IF data.t = "arr"
    THEN Arr([i \in 1..Len(results) |-> results[Len(results) + 1 - i]])
    ELSE results[1]

\* What processNestedExpands returns, given the processed items.
Assemble(data, nestedExpands, results) ==
    IF ~Truthy(data) \/ Len(nestedExpands) = 0 THEN data
    ELSE IF data.t = "arr" THEN Arr(results)
    ELSE results[1]

\* data.map(item => processNestedExpandsForItem(item, nestedExpands, db))
MapItems(items, nestedExpands, db) ==
    [i \in 1..Len(items) |-> ProcessNestedExpandsForItem(items[i], nestedExpands, db, 0)]

ProcessNestedExpands(data, nestedExpands, db) ==
    Assemble(data, nestedExpands, MapItems(ItemsOf(data, nestedExpands), nestedExpands, db))

\* ------------------------------------------------------------ URL, query
RECURSIVE SplitOn(_, _)
\* s.split(c) for a one-character separator c.
SplitOn(s, c) ==
    IF \A i \in 1..Len(s) : s[i] # c THEN <<s>>
    ELSE LET i == CHOOSE i \in 1..Len(s) : s[i] = c /\ \A j \in 1..(i - 1) : s[j] # c
         IN <<SubSeq(s, 1, i - 1)>> \o SplitOn(SubSeq(s, i + 1, Len(s)), c)

RECURSIVE JoinWith(_, _)
JoinWith(parts, c) ==
    IF Len(parts) = 0 THEN <<>>
    ELSE IF Len(parts) = 1 THEN parts[1]
    ELSE parts[1] \o <<c>> \o JoinWith(Tail(parts), c)

\* s.includes(sub)
Includes(s, sub) ==
    \E i \in 1..(Len(s) - Len(sub) + 1) : SubSeq(s, i, i + Len(sub) - 1) = sub

ExpandKey == <<"_", "e", "x", "p", "a", "n", "d">>

ExpandEq == ExpandKey \o <<"=">>

JsonType == <<"a", "p", "p", "l", "i", "c", "a", "t", "i", "o", "n", "/", "j", "s", "o", "n", ";", " ", "c", "h", "a", "r", "s", "e", "t", "=", "u", "t", "f", "-", "8">>

\* One "key=value" piece of a query string as [k |-> key, v |-> value].
ParsePair(piece) ==
    LET kv == SplitOn(piece, "=")
    IN [k |-> kv[1], v |-> JoinWith(Tail(kv), "=")]

\* new URLSearchParams(queryString): the pairs in order; empty pieces are
\* dropped.  Percent-encoding is not modelled: names here are plain letters.
SearchParams(queryString) ==
    LET pieces == SelectSeq(SplitOn(queryString, "&"), LAMBDA p : p # <<>>)
    IN [i \in 1..Len(pieces) |-> ParsePair(pieces[i])]

\* params.getAll('_expand')
GetAllExpand(params) ==
    LET hits == SelectSeq(params, LAMBDA p : p.k = ExpandKey)
    IN [i \in 1..Len(hits) |-> hits[i].v]

\* newParams.toString()
ParamsToString(params) ==
    JoinWith([i \in 1..Len(params) |-> params[i].k \o <<"=">> \o params[i].v], "&")

InSeq(seq, x) == \E i \in 1..Len(seq) : seq[i] = x

RECURSIVE ProcessedFrom(_, _, _)
\* processedExpands: the first segment of each parameter, once, in order.
ProcessedFrom(expandParams, i, acc) ==
    IF i > Len(expandParams) THEN acc
    ELSE LET primaryResource == Split(expandParams[i])[1]
         IN ProcessedFrom(expandParams, i + 1,
                IF InSeq(acc, primaryResource) THEN acc ELSE Append(acc, primaryResource))

ProcessedExpands(expandParams) == ProcessedFrom(expandParams, 1, <<>>)

RECURSIVE NestedFrom(_, _, _)
\* nestedExpands: for each parameter with a dot, its residual under its
\* first segment; a parameter without a dot is not entered.
NestedFrom(expandParams, i, acc) ==
    IF i > Len(expandParams) THEN acc
    ELSE LET param == expandParams[i]
             parts == Split(param)
         IN NestedFrom(expandParams, i + 1,
                IF HasDot(param)
                THEN TreePush(TreeEnsure(acc, parts[1]), parts[1], Join(Tail(parts)))
                ELSE acc)

NestedExpands(expandParams) == NestedFrom(expandParams, 1, <<>>)

\* PassesThrough without the test for a dot.
PassesWithoutExpand(meth, originalUrl) ==
    meth # "GET" \/ ~Includes(originalUrl, ExpandEq)

\* The early returns of the middleware: next() with nothing changed.
PassesThrough(meth, originalUrl) ==
    \/ meth # "GET"
    \/ ~Includes(originalUrl, ExpandEq)
    \/ Bind(SplitOn(originalUrl, "?"), LAMBDA urlParts :
            \/ Len(urlParts) < 2
            \/ Bind(GetAllExpand(SearchParams(urlParts[2])), LAMBDA expandParams :
                    ~\E i \in 1..Len(expandParams) : HasDot(expandParams[i])))

\* The rewritten req.url.
NewUrl(originalUrl) ==
    Bind(SplitOn(originalUrl, "?"), LAMBDA urlParts :
    Bind(SearchParams(urlParts[2]), LAMBDA params :
    Bind(ProcessedExpands(GetAllExpand(params)), LAMBDA processed :
         urlParts[1] \o <<"?">> \o
         ParamsToString(SelectSeq(params, LAMBDA p : p.k # ExpandKey) \o
                        [i \in 1..Len(processed) |->
                            [k |-> ExpandKey, v |-> processed[i]]]))))

\* The tree stored in req.nestedExpands.
RequestTree(originalUrl) ==
    NestedExpands(GetAllExpand(SearchParams(SplitOn(originalUrl, "?")[2])))

NoTree == [present |-> FALSE, tree |-> <<>>]

\* The request phase as a function: what the middleware leaves on the
\* request and the response before calling next().
MiddlewareOut(meth, originalUrl) ==
    IF PassesThrough(meth, originalUrl)
    THEN [url |-> originalUrl, nestedExpands |-> NoTree, wrapped |-> FALSE]
    ELSE [url |-> NewUrl(originalUrl),
          nestedExpands |-> [present |-> TRUE, tree |-> RequestTree(originalUrl)],
          wrapped |-> TRUE]

\* --------------------------------------------------------- routing layer
\* The json-server router, outside this repository: it answers the record
\* or the collection named by the path, with the single-level expansions it
\* supports itself already attached.  Express parses req.query before the
\* middleware rewrites req.url, so the router may read the original
\* parameters or the rewritten ones: both are modelled (routerView).
RouterExpands(view, originalUrl, url) ==
    Bind(SplitOn(IF view = "original" THEN originalUrl ELSE url, "?"), LAMBDA parts :
         IF Len(parts) < 2 THEN <<>> ELSE GetAllExpand(SearchParams(parts[2])))

NativeCollection(db, name) ==
    LET names == <<name, PluralS(name)>> \o
                 (IF EndsWith(name, "y") THEN <<PluralIes(name)>> ELSE <<>>)
        hit == FirstIndex(names, LAMBDA n : Len(DbGet(db, n)) > 0)
    IN IF hit = 0 THEN <<>> ELSE DbGet(db, names[hit])

NativeLookup(coll, fk) ==
    LET r0 == FindById(coll, fk)
        r1 == IF r0 # Undefined THEN r0 ELSE FindById(coll, Str(JsString(fk)))
        r2 == IF r1 # Undefined THEN r1 ELSE FindById(coll, JsNumber(fk))
    IN r2

RECURSIVE NativeExpand(_, _, _, _, _)
\* The router's own expansion reads the foreign key under the configured
\* suffix.
NativeExpand(record, expands, i, db, suffix) ==
    IF i > Len(expands) THEN record
    ELSE LET fk == Get(record, expands[i] \o suffix)
             found == IF fk = Undefined THEN Undefined
                      ELSE NativeLookup(NativeCollection(db, expands[i]), fk)
         IN NativeExpand(IF found = Undefined THEN record
                         ELSE Put(record, expands[i], found),
                         expands, i + 1, db, suffix)

\* A body text: whether it parses as JSON, the value it denotes, and the
\* indentation it is written with.
Text(json, val, spaces) == [json |-> json, val |-> val, spaces |-> spaces]

\* A json-server application has 'json spaces' set to 2: res.jsonp writes
\* indented text.
RouterSpaces == 2

\* res.jsonp(res.locals.data)
JsonText(val) == Text(TRUE, val, RouterSpaces)

\* A body that is not JSON; also what `sent` holds before anything is sent.
NoText == Text(FALSE, Undefined, 0)

HtmlType == <<"t", "e", "x", "t", "/", "h", "t", "m", "l">>

RouteOut(db, url, expands, suffix) ==
    LET segs == SplitOn(SplitOn(url, "?")[1], "/")
        coll == DbGet(db, segs[2])
        one == GetById(coll, Str(segs[3]))
    IN IF Len(segs) = 2
       THEN [status |-> 200, contentType |-> JsonType,
             body |-> JsonText(Arr([i \in 1..Len(coll) |->
                                      NativeExpand(coll[i], expands, 1, db, suffix)]))]
       ELSE IF one = Undefined
       THEN [status |-> 404, contentType |-> JsonType, body |-> JsonText(EmptyObj)]
       ELSE [status |-> 200, contentType |-> JsonType,
             body |-> JsonText(NativeExpand(one, expands, 1, db, suffix))]

\* What the handlers after the middleware send.  "json": the json-server
\* router.  "html": a handler that answers a page.  "broken": a handler that
\* announces JSON and sends a text that is not.
Layers == {"json", "html", "broken"}

LayerOut(layer, db, url, expands, suffix) ==
    CASE layer = "json" -> RouteOut(db, url, expands, suffix)
      [] layer = "html" -> [status |-> 200, contentType |-> HtmlType, body |-> NoText]
      [] OTHER -> [status |-> 200, contentType |-> JsonType, body |-> NoText]

\* ------------------------------------------------------- response phase
JsonTypeName == <<"a", "p", "p", "l", "i", "c", "a", "t", "i", "o", "n", "/", "j", "s", "o", "n">>

\* JSON.parse(body); the code's catch covers a body that does not parse.
CanParse(body) == body.json

JsonParse(body) == body.val

\* JSON.stringify(processedData): text without indentation.
JsonStringify(val) == Text(TRUE, val, 0)

\* `isJsonResponse && req.nestedExpands` in the overridden res.send.
Attempts(wrapped, contentType, nestedExpands) ==
    /\ wrapped
    /\ Includes(contentType, JsonTypeName)
    /\ nestedExpands.present

\* A step of the try block throws: JSON.parse on a text that is not JSON, or
\* db.getState() in processNestedExpands when req.app.db is undefined.
Throws(body, nestedExpands, hasDb) ==
    \/ ~CanParse(body)
    \/ ~hasDb /\ Truthy(JsonParse(body)) /\ Len(nestedExpands.tree) > 0

\* A catch block that answers an empty document.
CaughtAsEmpty(body) == JsonStringify(EmptyObj)

\* What the catch block sends.
Caught(body) == body

\* Whether the overridden res.send sends what processNestedExpands returns.
Intercepts(wrapped, body, contentType, nestedExpands, hasDb) ==
    Attempts(wrapped, contentType, nestedExpands) /\ ~Throws(body, nestedExpands, hasDb)

\* The items the overridden res.send has processed one by one.
SendItems(wrapped, body, contentType, nestedExpands, hasDb) ==
    IF Intercepts(wrapped, body, contentType, nestedExpands, hasDb)
    THEN ItemsOf(JsonParse(body), nestedExpands.tree)
    ELSE <<>>

\* What reaches the original send, given the processed items.
SendOut(wrapped, body, contentType, nestedExpands, hasDb, results) ==
    IF ~Attempts(wrapped, contentType, nestedExpands) THEN body
    ELSE IF Throws(body, nestedExpands, hasDb) THEN Caught(body)
    ELSE JsonStringify(Assemble(JsonParse(body), nestedExpands.tree, results))

\* The whole exchange with the json-server router, the default foreign-key
\* suffix and req.app.db set, as a
\* function of the store, the request and the router's view: status and
\* emitted body.
Respond(db, meth, originalUrl, view) ==
    LET m == MiddlewareOut(meth, originalUrl)
        r == RouteOut(db, m.url, RouterExpands(view, originalUrl, m.url), FkSuffix)
    IN [status |-> r.status,
        sent |-> SendOut(m.wrapped, r.body, r.contentType, m.nestedExpands, TRUE,
                         MapItems(SendItems(m.wrapped, r.body, r.contentType,
                                            m.nestedExpands, TRUE),
                                  m.nestedExpands.tree, db))]

\* ------------------------------------------------------ stores, requests
People == <<"p", "e", "o", "p", "l", "e">>

City == <<"c", "i", "t", "y">>

RelA == <<"a">>

RelB == <<"b">>

NameKey == <<"n", "a", "m", "e">>

\* Longest a.b.a.b... directive sent.
MaxChain == 9

\* An id no record has.
DanglingId == 9

Rec(id, fields) == Obj((IdKey :> id) @@ fields)

IdVal(n, asString) == IF asString THEN Str(Dec(n)) ELSE Num(n)

Named(c) == (NameKey :> Str(<<c>>))

\* How the first person refers to the first city.
CityFks == {"number", "string", "dangling", "absent"}

CityFk(kind, firstCityId) ==
    CASE kind = "number" -> (ForeignKey(City) :> Num(firstCityId))
      [] kind = "string" -> (ForeignKey(City) :> Str(Dec(firstCityId)))
      [] kind = "dangling" -> (ForeignKey(City) :> Num(DanglingId))
      [] kind = "padded" -> (ForeignKey(City) :> Str(<<"0">> \o Dec(firstCityId)))
      [] OTHER -> <<>>

PeopleRecords(kind, firstCityId) ==
    << Rec(Num(1), Named("J") @@ CityFk(kind, firstCityId)
                   @@ (ForeignKey(StateName) :> Num(1)) @@ (ForeignKey(RelA) :> Num(1))),
       Rec(Num(2), Named("K") @@ (ForeignKey(City) :> Num(2))
                   @@ (ForeignKey(RelA) :> Num(2))) >>

CityRecords(firstCityId, asString) ==
    << Rec(IdVal(firstCityId, asString), Named("N") @@ (ForeignKey(StateName) :> Num(1))),
       Rec(IdVal(2, asString), Named("P") @@ (ForeignKey(StateName) :> Num(2))) >>

StateRecords ==
    << Rec(Num(1), Named("Y") @@ (ForeignKey(CountryName) :> Num(1))),
       Rec(Num(2), Named("A") @@ (ForeignKey(CountryName) :> Num(1))) >>

CountryRecords == << Rec(Num(1), Named("U")) >>

\* A cycle: every a refers to b 1, and b 1 refers back to a 1.
ARecords ==
    << Rec(Num(1), Named("a") @@ (ForeignKey(RelB) :> Num(1)) @@ (ForeignKey(City) :> Num(2))),
       Rec(Num(2), Named("c") @@ (ForeignKey(RelB) :> Num(1))) >>

BRecords ==
    << Rec(Num(1), Named("b") @@ (ForeignKey(RelA) :> Num(1)) @@ (ForeignKey(City) :> Num(2))) >>

OtherRecords == << Rec(Num(7), Named("Z")) >>

\* Under which names a relation's records are stored.
Namings == {"exact", "s", "ies", "none", "emptyExact", "shadowed"}

Stored(name, naming, records) ==
    CASE naming = "exact" -> (name :> records)
      [] naming = "s" -> (PluralS(name) :> records)
      [] naming = "ies" -> (PluralIes(name) :> records)
      [] naming = "emptyExact" -> (name :> <<>>) @@ (PluralIes(name) :> records)
      [] naming = "shadowed" -> (PluralS(name) :> OtherRecords) @@ (PluralIes(name) :> records)
      [] OTHER -> <<>>

Store(cityNaming, stateNaming, countryNaming, cycleNaming, kind, firstCityId, asString) ==
    (People :> PeopleRecords(kind, firstCityId))
    @@ Stored(City, cityNaming, CityRecords(firstCityId, asString))
    @@ Stored(StateName, stateNaming, StateRecords)
    @@ Stored(CountryName, countryNaming, CountryRecords)
    @@ Stored(RelA, cycleNaming, ARecords)
    @@ Stored(RelB, cycleNaming, BRecords)

\* The stores: each naming of the city collection, each pair of namings of
\* the state and country collections, the cycle under plural names, and each
\* form of the first person's cityId against number and string ids, 1 and 0.
Stores ==
    { Store(cn, "s", "ies", "exact", "number", 1, FALSE) : cn \in Namings }
    \cup { Store("ies", sn, kn, "exact", "number", 1, FALSE) :
             sn \in {"s", "exact", "none"}, kn \in {"ies", "s", "exact", "none"} }
    \cup { Store("ies", "s", "ies", "s", "number", 1, FALSE) }
    \cup { Store("ies", sn, "ies", "exact", kind, first, asString) :
             sn \in {"s", "none"}, kind \in CityFks, first \in {0, 1},
             asString \in BOOLEAN }

P1(x) == x

P2(x, y) == Join(<<x, y>>)

P3(x, y, z) == Join(<<x, y, z>>)

\* a.b.a.b... of n segments.
Chain(n) == Join([i \in 1..n |-> IF i % 2 = 1 THEN RelA ELSE RelB])

DirectiveLists ==
    { <<P1(City)>>, <<P2(City, StateName)>>, <<P3(City, StateName, CountryName)>>,
      <<P2(StateName, CountryName)>>,
      <<P1(City), P2(City, StateName)>>, <<P2(City, StateName), P1(City)>>,
      <<P2(City, StateName), Chain(2)>>, <<P1(City), Chain(2)>>,
      <<P2(City, StateName), P3(City, StateName, CountryName)>>,
      <<P2(City, StateName), P2(StateName, CountryName)>>,
      <<P2(RelA, City)>>, <<P3(RelA, RelB, City)>>, <<P2(RelA, City), Chain(2)>> }
    \cup { <<Chain(n)>> : n \in 2..MaxChain }

Targets == { <<"/">> \o People, <<"/">> \o People \o <<"/", "1">>,
             <<"/">> \o People \o <<"/">> \o Dec(DanglingId) }

UrlOf(target, directives) ==
    target \o <<"?">> \o
    JoinWith([i \in 1..Len(directives) |-> ExpandEq \o directives[i]], "&")

Urls == { UrlOf(t, d) : t \in Targets, d \in DirectiveLists }

RouterViews == {"original", "rewritten"}

\* The stores and the requests of the exchanges in which something is
\* amiss: req.app.db is not set, the handler after the middleware is not the
\* json-server router, the server is configured with another suffix, or the
\* first person's cityId is the string "01".
FaultStores ==
    { Store("ies", "s", "ies", "exact", kind, 1, FALSE) : kind \in {"number", "padded"} }

FaultUrls ==
    { UrlOf(t, d) : t \in Targets,
                    d \in { <<P1(City)>>, <<P2(City, StateName)>>,
                            <<P1(City), Chain(2)>>, <<Chain(3)>>,
                            <<P1(StateName), P2(StateName, CountryName)>> } }

\* The foreign-key suffixes a server is configured with: the default and
\* another one.
Suffixes == { FkSuffix, <<"_", "i", "d">> }

\* A field name with the default suffix, written with `suffix` instead.
Resuffix(field, suffix) ==
    IF Len(field) > Len(FkSuffix)
       /\ SubSeq(field, Len(field) - Len(FkSuffix) + 1, Len(field)) = FkSuffix
    THEN SubSeq(field, 1, Len(field) - Len(FkSuffix)) \o suffix
    ELSE field

\* The store whose records carry their foreign keys under `suffix`.
Resuffixed(store, suffix) ==
    [n \in DOMAIN store |->
        [i \in 1..Len(store[n]) |->
            Obj([g \in { Resuffix(f, suffix) : f \in DOMAIN store[n][i].v } |->
                    store[n][i].v[CHOOSE f \in DOMAIN store[n][i].v :
                                     Resuffix(f, suffix) = g]])]]

\* ------------------------------------------------------ request guards
\* The outcome of a call that may throw: whether it threw, and its value.
Returned(val) == [threw |-> FALSE, val |-> val]

TypeError == [threw |-> TRUE, val |-> FALSE]

\* Array.prototype.includes.call(self, searchElement, fromIndex): a
\* TypeError when self is undefined.
ArrayIncludes(self, searchElement, fromIndex) ==
    IF self = Undefined THEN TypeError
    ELSE Returned(\E k \in (fromIndex + 1)..Len(self.v) : self.v[k] = searchElement)

\* `forbiddenBodyParams.includes` as some() calls it: with the element, its
\* index and the array, and with `this` undefined, the method having been
\* taken off its array.
IncludesDetached(forbiddenBodyParams, element, index) ==
    ArrayIncludes(Undefined, element, index)

RECURSIVE SomeForbidden(_, _, _)
\* bodyParams.some(forbiddenBodyParams.includes), from position i on.
SomeForbidden(bodyParams, forbiddenBodyParams, i) ==
    IF i > Len(bodyParams) THEN Returned(FALSE)
    ELSE Bind(IncludesDetached(forbiddenBodyParams, bodyParams[i], i - 1), LAMBDA hit :
              IF hit.threw \/ hit.val THEN hit
              ELSE SomeForbidden(bodyParams, forbiddenBodyParams, i + 1))

\* The handler forbidUpdateOn(...forbiddenBodyParams) returns, applied to a
\* request whose body has the properties bodyParams: the status it set (0:
\* none), whether it responded, whether it called next(), whether it threw.
ForbidUpdateOn(forbiddenBodyParams, bodyParams) ==
    Bind(SomeForbidden(bodyParams, forbiddenBodyParams, 1), LAMBDA hasForbiddenParam :
         IF hasForbiddenParam.threw
         THEN [status |-> 0, responded |-> FALSE, next |-> FALSE, threw |-> TRUE]
         ELSE IF hasForbiddenParam.val
         THEN [status |-> 403, responded |-> TRUE, next |-> FALSE, threw |-> FALSE]
         ELSE [status |-> 0, responded |-> FALSE, next |-> TRUE, threw |-> FALSE])

\* Property names of request bodies and of forbidden lists.
Props == { <<"e", "m", "a", "i", "l">>, <<"p", "a", "s", "s", "w", "o", "r", "d">>,
           <<"n", "a", "m", "e">> }

\* Longest list of forbidden properties.
MaxForbidden == 2

\* The sequences of distinct properties: Object.keys of a body.
KeyLists == { keys \in UNION { [1..n -> Props] : n \in 0..Cardinality(Props) } :
                \A i, j \in 1..Len(keys) : i # j => keys[i] # keys[j] }

ForbiddenLists == UNION { [1..n -> Props] : n \in 1..MaxForbidden }

\* No guarded request is under way.
NoGuard ==
    [forbiddenBodyParams |-> <<>>, bodyParams |-> <<>>, pc |-> "idle",
     out |-> [status |-> 0, responded |-> FALSE, next |-> FALSE, threw |-> FALSE]]

\* No other request is under way.  What belongs to a request is what the
\* middleware keeps on req and res and in the closure of the overridden send:
\* the URLs, req.nestedExpands, the override, what the response holds, and
\* the items its send has processed.
NoRequest ==
    [method |-> "GET", originalUrl |-> <<>>, url |-> <<>>, nestedExpands |-> NoTree,
     wrapped |-> FALSE, pc |-> "none", status |-> 0, contentType |-> <<>>,
     body |-> NoText, sent |-> NoText, processed |-> <<>>, suspended |-> FALSE,
     otherSuspended |-> FALSE]

\* ---------------------------------------------------------- the machine
\* stack: the activations of processNestedExpandsForItem, the running one
\* last.  processed: the items of the body already processed.  inflight: a
\* second request, waiting while the first one runs.
VARIABLES db, method, originalUrl, routerView, layer, hasDb, foreignKeySuffix, pc, url,
          nestedExpands, wrapped, status, contentType, body, sent, stack, processed,
          guard, inflight

vars == <<db, method, originalUrl, routerView, layer, hasDb, foreignKeySuffix, pc, url,
          nestedExpands, wrapped, status, contentType, body, sent, stack, processed,
          guard, inflight>>

\* The items this response hands to processNestedExpandsForItem.
TopItems == SendItems(wrapped, body, contentType, nestedExpands, hasDb)

Init ==
    /\ db \in Stores
    /\ method = "GET"
    /\ originalUrl \in Urls
    /\ routerView \in RouterViews
    /\ layer = "json"
    /\ hasDb = TRUE
    /\ foreignKeySuffix = FkSuffix
    /\ pc = "received"
    /\ url = originalUrl
    /\ nestedExpands = NoTree
    /\ wrapped = FALSE
    /\ status = 0
    /\ contentType = <<>>
    /\ body = NoText
    /\ sent = NoText
    /\ stack = <<>>
    /\ processed = <<>>
    /\ guard = NoGuard
    /\ inflight = NoRequest

\* nestedExpandMiddleware up to its call of next().
NestedExpandMiddleware ==
    /\ pc = "received"
    /\ url' = MiddlewareOut(method, originalUrl).url
    /\ nestedExpands' = MiddlewareOut(method, originalUrl).nestedExpands
    /\ wrapped' = MiddlewareOut(method, originalUrl).wrapped
    /\ pc' = "routing"
    /\ UNCHANGED <<db, method, originalUrl, routerView, layer, hasDb, foreignKeySuffix,
                   status, contentType, body, sent, stack, processed, guard, inflight>>

\* The router renders its answer and calls res.send(body).
Route ==
    /\ pc = "routing"
    /\ status' = LayerOut(layer, db, url, RouterExpands(routerView, originalUrl, url),
                         foreignKeySuffix).status
    /\ contentType' = LayerOut(layer, db, url, RouterExpands(routerView, originalUrl, url),
                         foreignKeySuffix).contentType
    /\ body' = LayerOut(layer, db, url, RouterExpands(routerView, originalUrl, url),
                         foreignKeySuffix).body
    /\ pc' = "sending"
    /\ UNCHANGED <<db, method, originalUrl, routerView, layer, hasDb, foreignKeySuffix,
                   url, nestedExpands, wrapped, sent, stack, processed, guard, inflight>>

\* processNestedExpands calls processNestedExpandsForItem for the next item
\* of the body, at depth 0.
Enter ==
    /\ pc = "sending"
    /\ stack = <<>>
    /\ Len(processed) < Len(TopItems)
    /\ stack' = <<Activation(TopItems[Len(processed) + 1], nestedExpands.tree, 0)>>
    /\ UNCHANGED <<db, method, originalUrl, routerView, layer, hasDb, foreignKeySuffix,
                   pc, url, nestedExpands, wrapped, status, contentType, body, sent,
                   processed, guard, inflight>>

\* The running activation enters the next key of nestedExpands.
Resource ==
    /\ stack # <<>>
    /\ ~Returns(Top(stack))
    /\ Top(stack).j = 0
    /\ \E next \in {EngineStep(stack, db)} :
          /\ stack' = next
          /\ db' = StoreOf(db, next)
    /\ UNCHANGED <<method, originalUrl, routerView, layer, hasDb, foreignKeySuffix, pc,
                   url, nestedExpands, wrapped, status, contentType, body, sent,
                   processed, guard, inflight>>

\* The running activation handles the next key of nextLevelExpands, which
\* may end in a recursive call.
Nested ==
    /\ stack # <<>>
    /\ ~Returns(Top(stack))
    /\ Top(stack).j > 0
    /\ \E next \in {EngineStep(stack, db)} :
          /\ stack' = next
          /\ db' = StoreOf(db, next)
    /\ UNCHANGED <<method, originalUrl, routerView, layer, hasDb, foreignKeySuffix, pc,
                   url, nestedExpands, wrapped, status, contentType, body, sent,
                   processed, guard, inflight>>

\* A recursive call returns to its caller.
Return ==
    /\ Len(stack) > 1
    /\ Returns(Top(stack))
    /\ \E next \in {EngineStep(stack, db)} :
          /\ stack' = next
          /\ db' = StoreOf(db, next)
    /\ UNCHANGED <<method, originalUrl, routerView, layer, hasDb, foreignKeySuffix, pc,
                   url, nestedExpands, wrapped, status, contentType, body, sent,
                   processed, guard, inflight>>

\* The depth-0 call returns to processNestedExpands.
Finish ==
    /\ Len(stack) = 1
    /\ Returns(Top(stack))
    /\ processed' = Append(processed, Top(stack).result)
    /\ stack' = <<>>
    /\ UNCHANGED <<db, method, originalUrl, routerView, layer, hasDb, foreignKeySuffix,
                   pc, url, nestedExpands, wrapped, status, contentType, body, sent,
                   guard, inflight>>

\* The body reaches the original send.
Send ==
    /\ pc = "sending"
    /\ stack = <<>>
    /\ Len(processed) = Len(TopItems)
    /\ sent' = SendOut(wrapped, body, contentType, nestedExpands, hasDb, processed)
    /\ pc' = "done"
    /\ UNCHANGED <<db, method, originalUrl, routerView, layer, hasDb, foreignKeySuffix,
                   url, nestedExpands, wrapped, status, contentType, body, stack,
                   processed, guard, inflight>>

Next ==
    \/ NestedExpandMiddleware
    \/ Route
    \/ Enter
    \/ Resource
    \/ Nested
    \/ Return
    \/ Finish
    \/ Send

Spec == Init /\ [][Next]_vars

\* The wrapped send is synchronous code: once the router has called it, each
\* of its steps is taken until the body reaches the original send.
Expansion == Enter \/ Resource \/ Nested \/ Return \/ Finish \/ Send

FairSpec == Spec /\ WF_vars(Expansion)

\* The exchanges in which the handler after the middleware may be any of
\* Layers, req.app.db may be unset, and the server may be configured with
\* another foreign-key suffix, the records of the store being keyed with it.
InitAnySetup ==
    /\ foreignKeySuffix \in Suffixes
    /\ db \in { Resuffixed(store, foreignKeySuffix) : store \in FaultStores }
    /\ method = "GET"
    /\ originalUrl \in FaultUrls
    /\ routerView = "original"
    /\ layer \in Layers
    /\ hasDb \in BOOLEAN
    /\ pc = "received"
    /\ url = originalUrl
    /\ nestedExpands = NoTree
    /\ wrapped = FALSE
    /\ status = 0
    /\ contentType = <<>>
    /\ body = NoText
    /\ sent = NoText
    /\ stack = <<>>
    /\ processed = <<>>
    /\ guard = NoGuard
    /\ inflight = NoRequest

AnySetupSpec == InitAnySetup /\ [][Next]_vars

\* The requests of the request phase: a path alone, or a path and a query of
\* up to three parameters, each a directive or another parameter; the value
\* a?b has a question mark in it, which a query may hold.
RequestUrls ==
    Targets \cup
    { t \o <<"?">> \o JoinWith(pieces, "&") :
        t \in Targets,
        pieces \in UNION { [1..n ->
            { ExpandEq \o P1(City), ExpandEq \o P2(City, StateName),
              ExpandEq \o P3(City, StateName, CountryName), ExpandEq \o Chain(2),
              <<"q", "=", "x">>, <<"_", "l", "i", "m", "i", "t", "=", "1">>,
              <<"q", "=", "a", "?", "b">> }] : n \in 1..3 } }

\* A request of any method reaches the middleware.
RequestInit ==
    /\ db = <<>>
    /\ method \in {"GET", "POST"}
    /\ originalUrl \in RequestUrls
    /\ routerView = "original"
    /\ layer = "json"
    /\ hasDb = TRUE
    /\ foreignKeySuffix = FkSuffix
    /\ pc = "received"
    /\ url = originalUrl
    /\ nestedExpands = NoTree
    /\ wrapped = FALSE
    /\ status = 0
    /\ contentType = <<>>
    /\ body = NoText
    /\ sent = NoText
    /\ stack = <<>>
    /\ processed = <<>>
    /\ guard = NoGuard
    /\ inflight = NoRequest

\* The request phase alone: the middleware up to its call of next().
RequestSpec == RequestInit /\ [][NestedExpandMiddleware]_vars

\* The requests that are served two at a time.
TwoAtATime ==
    { UrlOf(t, d) : t \in { <<"/">> \o People, <<"/">> \o People \o <<"/", "1">> },
                    d \in { <<P2(City, StateName)>>, <<Chain(3)>>,
                            <<P1(City), Chain(2)>> } }

\* Two requests have arrived; the first is about to enter the middleware.
ConcurrentInit ==
    /\ db \in { Store("ies", "s", "ies", "exact", "number", 1, FALSE),
                Store("exact", "s", "ies", "s", "number", 1, FALSE) }
    /\ method = "GET"
    /\ originalUrl \in TwoAtATime
    /\ routerView = "original"
    /\ layer = "json"
    /\ hasDb = TRUE
    /\ foreignKeySuffix = FkSuffix
    /\ pc = "received"
    /\ url = originalUrl
    /\ nestedExpands = NoTree
    /\ wrapped = FALSE
    /\ status = 0
    /\ contentType = <<>>
    /\ body = NoText
    /\ sent = NoText
    /\ stack = <<>>
    /\ processed = <<>>
    /\ guard = NoGuard
    /\ inflight \in { [NoRequest EXCEPT !.originalUrl = u, !.url = u, !.pc = "received"] :
                        u \in TwoAtATime }

\* Switch with req.nestedExpands left as the running request has it, as it
\* would be if the tree were kept in one place for all requests.
SwitchSharingTree ==
    /\ inflight.pc \notin {"none", "done"}
    /\ pc \in {"received", "routing", "done"} \/ (pc = "sending" /\ stack = <<>> /\ processed = <<>>)
    /\ method' = inflight.method
    /\ originalUrl' = inflight.originalUrl
    /\ url' = inflight.url
    /\ nestedExpands' = nestedExpands
    /\ wrapped' = inflight.wrapped
    /\ pc' = inflight.pc
    /\ status' = inflight.status
    /\ contentType' = inflight.contentType
    /\ body' = inflight.body
    /\ sent' = inflight.sent
    /\ processed' = inflight.processed
    /\ inflight' = [method |-> method, originalUrl |-> originalUrl, url |-> url,
                    nestedExpands |-> nestedExpands, wrapped |-> wrapped, pc |-> pc,
                    status |-> status, contentType |-> contentType, body |-> body,
                    sent |-> sent, processed |-> processed,
                    suspended |-> inflight.otherSuspended \/ pc \in {"routing", "sending"},
                    otherSuspended |-> inflight.suspended]
    /\ UNCHANGED <<db, routerView, layer, hasDb, foreignKeySuffix, stack, guard>>

\* The running request waits at one of the points where its handlers may
\* yield (before the middleware, before the routing layer, before the
\* routing layer calls send; the overridden send itself is synchronous) and
\* the other request goes on.  Each request has its own req and res.
Switch ==
    /\ inflight.pc \notin {"none", "done"}
    /\ pc \in {"received", "routing", "done"} \/ (pc = "sending" /\ stack = <<>> /\ processed = <<>>)
    /\ method' = inflight.method
    /\ originalUrl' = inflight.originalUrl
    /\ url' = inflight.url
    /\ nestedExpands' = inflight.nestedExpands
    /\ wrapped' = inflight.wrapped
    /\ pc' = inflight.pc
    /\ status' = inflight.status
    /\ contentType' = inflight.contentType
    /\ body' = inflight.body
    /\ sent' = inflight.sent
    /\ processed' = inflight.processed
    /\ inflight' = [method |-> method, originalUrl |-> originalUrl, url |-> url,
                    nestedExpands |-> nestedExpands, wrapped |-> wrapped, pc |-> pc,
                    status |-> status, contentType |-> contentType, body |-> body,
                    sent |-> sent, processed |-> processed,
                    suspended |-> inflight.otherSuspended \/ pc \in {"routing", "sending"},
                    otherSuspended |-> inflight.suspended]
    /\ UNCHANGED <<db, routerView, layer, hasDb, foreignKeySuffix, stack, guard>>

ConcurrentSpec == ConcurrentInit /\ [][Next \/ Switch]_vars

\* A request with a body reaches the handler forbidUpdateOn returned.
GuardInit ==
    /\ db = <<>>
    /\ method = "PUT"
    /\ originalUrl = <<"/">> \o People \o <<"/", "1">>
    /\ routerView = "original"
    /\ layer = "json"
    /\ hasDb = TRUE
    /\ foreignKeySuffix = FkSuffix
    /\ pc = "guarding"
    /\ url = originalUrl
    /\ nestedExpands = NoTree
    /\ wrapped = FALSE
    /\ status = 0
    /\ contentType = <<>>
    /\ body = NoText
    /\ sent = NoText
    /\ stack = <<>>
    /\ processed = <<>>
    /\ guard \in { [NoGuard EXCEPT !.forbiddenBodyParams = forbidden, !.bodyParams = keys,
                                   !.pc = "received"] :
                    forbidden \in ForbiddenLists, keys \in KeyLists }
    /\ inflight = NoRequest

\* The handler runs.
ForbidUpdateOnHandler ==
    /\ guard.pc = "received"
    /\ guard' = [guard EXCEPT !.pc = "handled",
                              !.out = ForbidUpdateOn(guard.forbiddenBodyParams,
                                                     guard.bodyParams)]
    /\ status' = ForbidUpdateOn(guard.forbiddenBodyParams, guard.bodyParams).status
    /\ UNCHANGED <<db, method, originalUrl, routerView, layer, hasDb, foreignKeySuffix,
                   pc, url, nestedExpands, wrapped, contentType, body, sent, stack,
                   processed, inflight>>

GuardSpec == GuardInit /\ [][ForbidUpdateOnHandler]_vars

\* ----------------------------------------------------------- observations
Done == pc = "done"

\* The directives of a request, in order.
DirectivesOf(u) == GetAllExpand(SearchParams(SplitOn(u, "?")[2]))

PathOf(u) == SplitOn(u, "?")[1]

\* The records of a JSON document: the elements of a list, or the one record.
RecordsOf(doc) ==
    IF ~doc.json THEN <<>>
    ELSE IF doc.val.t = "arr" THEN doc.val.v
    ELSE IF doc.val.t = "obj" THEN <<doc.val>>
    ELSE <<>>

\* The records the client receives.
OutRecords == RecordsOf(sent)

IsObj(x) == x.t = "obj"

\* `holder` has an object under `key` with every field of `record` intact.
Carries(holder, key, record) ==
    /\ IsObj(Get(holder, key))
    /\ \A f \in DOMAIN record.v : Get(Get(holder, key), f) = record.v[f]

\* Some record of the collection has exactly this id.
HasId(coll, id) == \E i \in 1..Len(coll) : Get(coll[i], IdKey) = id

\* The record of the collection with exactly this id.
WithId(coll, id) == coll[CHOOSE i \in 1..Len(coll) : Get(coll[i], IdKey) = id]

RECURSIVE NestDepth(_)
\* How many levels of objects are nested inside a record.  Stored records
\* hold numbers and strings only, so every nested object is an attachment.
NestDepth(val) ==
    IF ~IsObj(val) \/ \A f \in DOMAIN val.v : ~IsObj(val.v[f]) THEN 0
    ELSE LET f == CHOOSE g \in DOMAIN val.v :
                      /\ IsObj(val.v[g])
                      /\ \A h \in DOMAIN val.v :
                            IsObj(val.v[h]) => NestDepth(val.v[h]) <= NestDepth(val.v[g])
         IN 1 + NestDepth(val.v[f])

RECURSIVE AttachedAlong(_, _)
\* The record carries an object under the first segment, which carries an
\* object under the second, and so on for every segment.
AttachedAlong(record, segments) ==
    \/ Len(segments) = 0
    \/ /\ IsObj(Get(record, Head(segments)))
       /\ AttachedAlong(Get(record, Head(segments)), Tail(segments))

RECURSIVE ResolvesAlong(_, _, _)
\* Every segment's foreign key is present in the record reached so far and
\* resolves under the collection-name rule and the id rule.
ResolvesAlong(store, record, segments) ==
    \/ Len(segments) = 0
    \/ Bind(LookupNested(ResolveCollection(store, Head(segments)),
                         Get(record, ForeignKey(Head(segments)))),
            LAMBDA related :
               /\ Get(record, ForeignKey(Head(segments))) # Undefined
               /\ Truthy(related)
               /\ ResolvesAlong(store, related, Tail(segments)))

\* ------------------------------------------------------------------ claims
\* C1: for every record and every relation R with a non-empty collection
\* and a foreign key RId equal to the id of a record of that collection, a
\* directive whose first segment is R yields an output that carries that
\* record under R with all its fields intact.
C1_FirstSegmentAttached ==
    Done =>
      \A i \in 1..Len(OutRecords) : \A j \in 1..Len(DirectivesOf(originalUrl)) :
        Bind(Split(DirectivesOf(originalUrl)[j])[1], LAMBDA R :
        Bind(ResolveCollection(db, R), LAMBDA coll :
             (/\ Size(coll) > 0
              /\ Get(OutRecords[i], ForeignKey(R)) # Undefined
              /\ HasId(coll, Get(OutRecords[i], ForeignKey(R))))
             => Carries(OutRecords[i], R, WithId(coll, Get(OutRecords[i], ForeignKey(R))))))

\* C2: for every two-segment directive A.B, the object attached under A
\* carries B, attached by the rule of A: foreign key BId of the A record,
\* resolved against B's collection.
C2_SecondSegmentAttached ==
    Done =>
      \A i \in 1..Len(OutRecords) : \A j \in 1..Len(DirectivesOf(originalUrl)) :
        Bind(Split(DirectivesOf(originalUrl)[j]), LAMBDA segments :
             (/\ Len(segments) = 2
              /\ IsObj(Get(OutRecords[i], segments[1]))
              /\ ResolvesAlong(db, Get(OutRecords[i], segments[1]), <<segments[2]>>))
             => Carries(Get(OutRecords[i], segments[1]), segments[2],
                        LookupNested(ResolveCollection(db, segments[2]),
                                     Get(Get(OutRecords[i], segments[1]),
                                         ForeignKey(segments[2])))))

\* The number of levels the documentation promises.
DocumentedLevels == 5

\* C3: for a directive of 3 to 5 segments whose every level resolves under
\* the collection-name rule and the id rule, all levels are attached, each
\* inside the previous one, whatever the relations are called.
C3_AllLevelsAttached ==
    Done =>
      \A i \in 1..Len(OutRecords) : \A j \in 1..Len(DirectivesOf(originalUrl)) :
        Bind(Split(DirectivesOf(originalUrl)[j]), LAMBDA segments :
             (/\ Len(segments) \in 3..DocumentedLevels
              /\ ResolvesAlong(db, OutRecords[i], segments))
             => AttachedAlong(OutRecords[i], segments))

\* C4: no output carries more than 5 nested levels of attached relations,
\* for every directive length and every store.
C4_AtMostFiveLevels ==
    Done => \A i \in 1..Len(OutRecords) : NestDepth(OutRecords[i]) <= DocumentedLevels

\* The relation a record refers to, resolved by the collection-name rule and
\* the id rule.
Follow(store, record, relation) ==
    LookupNested(ResolveCollection(store, relation), Get(record, ForeignKey(relation)))

\* Some record of a refers to a record of b that refers back to it.
HasCycle(store) ==
    \E i \in 1..Size(ResolveCollection(store, RelA)) :
       Bind(ResolveCollection(store, RelA)[i], LAMBDA a :
            Follow(store, Follow(store, a, RelB), RelA) = a)

\* The request carries a directive of three or more segments over a and b.
DeepOverCycle ==
    /\ HasCycle(db)
    /\ \E j \in 1..Len(DirectivesOf(originalUrl)) :
          \E n \in 3..MaxChain : DirectivesOf(originalUrl)[j] = Chain(n)

\* The client has been sent a JSON body under the router's status.
Responded == Done /\ sent.json /\ status \in {200, 404}

\* C5: over a record graph with a cycle (a refers to b, b refers to a), the
\* expansion of a response to a request with a deep nested directive
\* terminates and the response is returned.
C5_CycleTerminates == (DeepOverCycle /\ pc = "sending") ~> Responded

\* A deep directive over the cycle has driven the recursion to the depth
\* where it is refused.
C5_DepthRefused ==
    /\ DeepOverCycle
    /\ stack # <<>>
    /\ Top(stack).depth > MaxDepth
    /\ Returns(Top(stack))

\* The request carries exactly a bare directive A and a directive A.B, in
\* either order.
SharedPrefix(directives) ==
    /\ Len(directives) = 2
    /\ \E k \in 1..2 :
          /\ ~HasDot(directives[k])
          /\ Len(Split(directives[3 - k])) = 2
          /\ Split(directives[3 - k])[1] = directives[k]

\* Of two directives A and A.B, the dotted one.
Dotted(directives) == IF HasDot(directives[1]) THEN directives[1] ELSE directives[2]

\* C6: the directives A and A.B in one request, in either order, give the
\* result of the single directive A.B.
C6_SharedPrefixAsSingle ==
    (Done /\ SharedPrefix(DirectivesOf(originalUrl))) =>
       Bind(Respond(db, method,
                    UrlOf(PathOf(originalUrl), <<Dotted(DirectivesOf(originalUrl))>>),
                    routerView),
            LAMBDA alone : status = alone.status /\ sent = alone.sent)

\* The record's foreign key for the relation is there, the relation's
\* collection resolves, and no record of it has that id.
Dangling(store, record, relation) ==
    /\ Get(record, ForeignKey(relation)) # Undefined
    /\ Size(ResolveCollection(store, relation)) > 0
    /\ \A k \in 1..Size(ResolveCollection(store, relation)) :
          JsString(Get(ResolveCollection(store, relation)[k], IdKey))
             # JsString(Get(record, ForeignKey(relation)))

\* The sequence without its j-th element.
Without(seq, j) == SubSeq(seq, 1, j - 1) \o SubSeq(seq, j + 1, Len(seq))

\* The request without its j-th directive.
WithoutDirective(u, j) ==
    IF Len(DirectivesOf(u)) = 1 THEN PathOf(u)
    ELSE UrlOf(PathOf(u), Without(DirectivesOf(u), j))

SegmentsOf(u) ==
    UNION { { Split(DirectivesOf(u)[j])[k] : k \in 1..Len(Split(DirectivesOf(u)[j])) } :
            j \in 1..Len(DirectivesOf(u)) }

\* The relation's records are stored under its y -> ies plural and under
\* neither its exact name nor name + 's'.
OnlyIrregularPlural(store, relation) ==
    /\ EndsWith(relation, "y")
    /\ Size(DbGet(store, PluralIes(relation))) > 0
    /\ relation \notin DOMAIN store
    /\ PluralS(relation) \notin DOMAIN store

\* The store with one collection under another name.
Renamed(store, from, to) ==
    [n \in (DOMAIN store \ {from}) \cup {to} |-> IF n = to THEN store[from] ELSE store[n]]

\* C8: for a relation whose only collection is its y -> ies plural, the
\* response is the one given when that collection is stored under the
\* relation's exact name.
C8_IrregularPluralAsExact ==
    Done =>
      \A relation \in SegmentsOf(originalUrl) :
        OnlyIrregularPlural(db, relation) =>
          sent = Respond(Renamed(db, PluralIes(relation), relation),
                         method, originalUrl, routerView).sent

\* No candidate collection of the relation exists, or all of them are empty.
NoCandidate(store, relation) == Size(ResolveCollection(store, relation)) = 0

\* The directives with the last segment of the j-th one removed.
Shortened(directives, j) ==
    [directives EXCEPT ![j] = Join(DropLast(Split(directives[j])))]

\* C9: when the last segment of a directive of two or more segments names a
\* relation with no candidate collection, or only empty ones, the document
\* answered and its status are those of the request with that segment
\* removed.
C9_MissingLastSegmentAsShorter ==
    Done =>
      \A j \in 1..Len(DirectivesOf(originalUrl)) :
        Bind(Split(DirectivesOf(originalUrl)[j]), LAMBDA segments :
             (Len(segments) >= 2 /\ NoCandidate(db, segments[Len(segments)])) =>
                Bind(Respond(db, method,
                             UrlOf(PathOf(originalUrl),
                                   Shortened(DirectivesOf(originalUrl), j)),
                             routerView),
                     LAMBDA shorter : /\ status = shorter.status
                                      /\ sent.json = shorter.sent.json
                                      /\ sent.val = shorter.sent.val))

\* The router's body is a list and the overridden send expands it.
ExpandsList ==
    /\ Intercepts(wrapped, body, contentType, nestedExpands, hasDb)
    /\ JsonParse(body).t = "arr"
    /\ Len(nestedExpands.tree) > 0

\* C10: when the response body is a sequence of records, the output is a
\* sequence of the same length and order whose i-th element is the
\* expansion of the i-th record taken alone.
C10_ListItemwise ==
    (Done /\ ExpandsList) =>
       /\ sent.json
       /\ sent.val.t = "arr"
       /\ Len(sent.val.v) = Len(JsonParse(body).v)
       /\ \A i \in 1..Len(sent.val.v) :
             sent.val.v[i] =
                ProcessNestedExpands(JsonParse(body).v[i], nestedExpands.tree, db)

\* A list of two records was expanded and its records came out different
\* from each other and from what the router gave.
C10_ListExpanded ==
    /\ Done
    /\ ExpandsList
    /\ Len(sent.val.v) = 2
    /\ sent.val.v[1] # sent.val.v[2]
    /\ \A i \in 1..2 : NestDepth(sent.val.v[i]) > NestDepth(JsonParse(body).v[i])

\* C11: no step of the machine changes the backing store: through every
\* expansion, with any directives and at any depth, each collection and each
\* record of the store stays as it was; the engine's property writes land in
\* copies only, never in an object the store holds.
C11_StoreUnchanged == [][db' = db]_vars

\* An activation below depth 0 has attached an object of the store by
\* reference, and the store is read again afterwards.
C11_SharedAttached ==
    \E k \in 1..Len(stack) : stack[k].depth > 0 /\ stack[k].held # {}

\* The item the k-th activation of the stack was called with: for the
\* depth-0 call the next item of the body, for a recursive call the
\* caller's result[resourceName], which the caller leaves alone until the
\* call returns.
ItemOf(k) ==
    IF k = 1 THEN TopItems[Len(processed) + 1]
    ELSE Get(stack[k - 1].result, ResourceName(stack[k - 1]))

\* Every field of `before` that `tree` does not name is in `after` with the
\* same value.
KeepsOthers(before, after, tree) ==
    \A f \in DOMAIN before.v :
        ~TreeHas(tree, f) => f \in DOMAIN after.v /\ after.v[f] = before.v[f]

\* C12: in every call of the engine, at every depth and at every point of
\* its run, each field of the input record that the expansion tree does not
\* name is in the result with the value it had; and inside an object the
\* input already carried under a named relation, each field that the
\* relation's residual paths do not name is unaltered as well.
C12_OtherFieldsKept ==
    \A k \in 1..Len(stack) :
        IsObj(ItemOf(k)) =>
            /\ IsObj(stack[k].result)
            /\ KeepsOthers(ItemOf(k), stack[k].result, stack[k].nestedExpands)
            /\ \A n \in 1..Len(stack[k].nestedExpands) :
                  IsObj(Get(ItemOf(k), stack[k].nestedExpands[n].k)) =>
                      /\ IsObj(Get(stack[k].result, stack[k].nestedExpands[n].k))
                      /\ KeepsOthers(Get(ItemOf(k), stack[k].nestedExpands[n].k),
                                     Get(stack[k].result, stack[k].nestedExpands[n].k),
                                     NextLevelExpands(stack[k].nestedExpands[n].r))

\* A recursive call is about to return a record it attached a relation to,
\* and the depth-0 call under it has attached one too.
C12_AttachedAtDepth ==
    /\ Len(stack) > 1
    /\ Returns(Top(stack))
    /\ IsObj(ItemOf(Len(stack)))
    /\ Top(stack).result # ItemOf(Len(stack))
    /\ stack[1].result # ItemOf(1)

\* The body sent is the router's body parsed, expanded item by item from
\* depth 0 and written again by JSON.stringify.
Reserialized ==
    /\ CanParse(body)
    /\ Len(processed) = Len(ItemsOf(JsonParse(body), nestedExpands.tree))
    /\ sent = JsonStringify(Assemble(JsonParse(body), nestedExpands.tree, processed))

\* C13: the outgoing body is parsed, expanded from depth 0 and re-serialized
\* if and only if the outgoing content is JSON-typed and the request carried
\* at least one expansion directive, bare or dotted.
C13_ReserializedIffJsonAndDirective ==
    Done =>
      (Reserialized <=>
         (Includes(contentType, JsonTypeName) /\ Len(DirectivesOf(originalUrl)) > 0))

\* The interception is under way and cannot go through: the announced JSON
\* does not parse, or req.app.db is not set.
Failing == Attempts(wrapped, contentType, nestedExpands) /\ (~CanParse(body) \/ ~hasDb)

\* C14: when the body is not valid JSON or the store handle is missing, the
\* engine is not entered, the send is the next step and is not held back,
\* the body emitted is the original one, unmodified, and the status is the
\* one the routing layer set.
C14_FailureSendsOriginal ==
    /\ (pc = "sending" /\ Failing) => (stack = <<>> /\ processed = <<>> /\ ENABLED Send)
    /\ (Done /\ Failing) =>
          /\ sent = body
          /\ status = LayerOut(layer, db, url, RouterExpands(routerView, originalUrl, url),
                         foreignKeySuffix).status

\* The router answered JSON to a dotted request while req.app.db was unset,
\* and the response has been sent.
C14_SentWithoutStore == Done /\ Failing /\ CanParse(body) /\ ~hasDb /\ sent.json

\* The record has no foreign-key field for the relation.
LacksKey(record, relation) ==
    /\ IsObj(record)
    /\ ForeignKey(relation) \notin DOMAIN record.v

RECURSIVE SkippedWhereKeyLacks(_, _)
\* Along the segments of a directive, the first record reached that lacks
\* the foreign key of the next segment carries nothing under that segment.
SkippedWhereKeyLacks(record, segments) ==
    \/ Len(segments) = 0
    \/ ~IsObj(record)
    \/ IF LacksKey(record, Head(segments))
       THEN Head(segments) \notin DOMAIN record.v
       ELSE SkippedWhereKeyLacks(Get(record, Head(segments)), Tail(segments))

\* C15: when a directive requests a relation for which the record has no
\* foreign-key field, nothing is attached under that relation, at whatever
\* level the record is reached; when it is the answered record itself, it is
\* answered as in the response to the request without that directive, under
\* the same status, in a JSON document.
C15_MissingKeySkipped ==
    Done =>
      \A i \in 1..Len(OutRecords) : \A j \in 1..Len(DirectivesOf(originalUrl)) :
        Bind(Split(DirectivesOf(originalUrl)[j]), LAMBDA segments :
          /\ SkippedWhereKeyLacks(OutRecords[i], segments)
          /\ LacksKey(OutRecords[i], segments[1]) =>
               Bind(Respond(db, method, WithoutDirective(originalUrl, j), routerView),
                    LAMBDA alone :
                       /\ sent.json
                       /\ status = alone.status
                       /\ Len(RecordsOf(alone.sent)) = Len(OutRecords)
                       /\ RecordsOf(alone.sent)[i] = OutRecords[i]))

\* A nested directive was expanded for a list in which one record has the
\* foreign key of the first segment and another has not.
C15_KeyLackingInList ==
    /\ Done
    /\ wrapped
    /\ Len(OutRecords) = 2
    /\ \E j \in 1..Len(DirectivesOf(originalUrl)) :
          Bind(Split(DirectivesOf(originalUrl)[j])[1], LAMBDA relation :
               /\ HasDot(DirectivesOf(originalUrl)[j])
               /\ \E i \in 1..2 : LacksKey(OutRecords[i], relation)
               /\ \E i \in 1..2 : IsObj(Get(OutRecords[i], relation)))

\* The record has, under the relation's name followed by the suffix, a key
\* that is the id of a record of the relation's collection.
KeyResolves(store, record, relation, suffix) ==
    /\ IsObj(record)
    /\ Truthy(Get(record, relation \o suffix))
    /\ HasId(ResolveCollection(store, relation), Get(record, relation \o suffix))

\* C16: the foreign-key field looked up for a relation R is R followed by
\* the configured suffix, RId by default and RS under a configured suffix
\* S, at the first level and inside an attached record: a record whose
\* field of that name holds the id of a record of R's collection is
\* answered with an object under R.
C16_ConfiguredSuffixLookedUp ==
    (Done /\ wrapped /\ layer = "json" /\ hasDb) =>
      \A i \in 1..Len(OutRecords) : \A j \in 1..Len(DirectivesOf(originalUrl)) :
        Bind(Split(DirectivesOf(originalUrl)[j]), LAMBDA segments :
          /\ KeyResolves(db, OutRecords[i], segments[1], foreignKeySuffix)
                => IsObj(Get(OutRecords[i], segments[1]))
          /\ (/\ Len(segments) > 1
              /\ IsObj(Get(OutRecords[i], segments[1]))
              /\ KeyResolves(db, Get(OutRecords[i], segments[1]), segments[2],
                             foreignKeySuffix))
                => IsObj(Get(Get(OutRecords[i], segments[1]), segments[2])))

\* The request body has at least one of the forbidden properties.
HasForbidden ==
    \E i \in 1..Len(guard.bodyParams) : \E k \in 1..Len(guard.forbiddenBodyParams) :
        guard.bodyParams[i] = guard.forbiddenBodyParams[k]

\* C17: the handler returned by forbidUpdateOn(p1, ..., pn) rejects with
\* status 403 a request whose body has at least one property among p1..pn,
\* and otherwise passes the request to the next handler without responding.
C17_ForbiddenRejectedElseNext ==
    guard.pc = "handled" =>
       IF HasForbidden
       THEN guard.out.responded /\ guard.out.status = 403 /\ ~guard.out.next
       ELSE guard.out.next /\ ~guard.out.responded

\* The relation names of the requests.
Relations == {City, StateName, CountryName, RelA, RelB}

\* The candidate collection names of a relation, in the order of the rule.
Candidates(name) ==
    <<name, PluralS(name)>> \o (IF EndsWith(name, "y") THEN <<PluralIes(name)>> ELSE <<>>)

\* The collection of the first candidate that exists and is not empty; the
\* empty collection when there is none.
FirstNonEmpty(store, name) ==
    IF \E k \in 1..Len(Candidates(name)) : Size(DbGet(store, Candidates(name)[k])) > 0
    THEN DbGet(store, Candidates(name)[
             CHOOSE k \in 1..Len(Candidates(name)) :
                /\ Size(DbGet(store, Candidates(name)[k])) > 0
                /\ \A h \in 1..(k - 1) : Size(DbGet(store, Candidates(name)[h])) = 0])
    ELSE <<>>

\* The activation has itself attached the relation it is at.
SelfAttached(act) ==
    /\ ~Returns(act)
    /\ act.j > 0
    /\ ~act.expanded

\* C18: collection resolution yields the collection of the first candidate,
\* in the order exact name, name + s, and for a name ending in y the name
\* with y replaced by ies, that exists and is not empty: the earliest of
\* several non-empty candidates, never an empty one; and what the engine
\* attaches under a relation it resolves is a record of that collection.
C18_FirstNonEmptyCandidate ==
    /\ \A name \in Relations : ResolveCollection(db, name) = FirstNonEmpty(db, name)
    /\ \A k \in 1..Len(stack) :
          SelfAttached(stack[k]) =>
             \E n \in 1..Size(FirstNonEmpty(db, ResourceName(stack[k]))) :
                Carries(stack[k].result, ResourceName(stack[k]),
                        FirstNonEmpty(db, ResourceName(stack[k]))[n])

\* The engine has attached a city from `cities` although a collection
\* `city` exists, empty.
C18_EmptyPassedOver ==
    /\ City \in DOMAIN db
    /\ Size(db[City]) = 0
    /\ stack # <<>>
    /\ SelfAttached(Top(stack))
    /\ ResourceName(Top(stack)) = City
    /\ IsObj(Get(Top(stack).result, City))

\* The record the lookup rule yields: the first hit among the foreign key as
\* it is, as a string and as a number.
FirstOfThreeForms(coll, fk) ==
    IF Truthy(FindById(coll, fk)) THEN FindById(coll, fk)
    ELSE IF Truthy(FindById(coll, Str(JsString(fk)))) THEN FindById(coll, Str(JsString(fk)))
    ELSE FindById(coll, JsNumber(fk))

\* The record's foreign key for the relation finds a record under the
\* lookup rule.
FoundInSomeForm(store, record, relation) ==
    /\ IsObj(record)
    /\ Truthy(Get(record, ForeignKey(relation)))
    /\ Truthy(FirstOfThreeForms(ResolveCollection(store, relation),
                                Get(record, ForeignKey(relation))))

\* The holder carries, under the relation, the record the lookup rule yields
\* for the holder's foreign key.
CarriesFound(store, holder, relation) ==
    Carries(holder, relation,
            FirstOfThreeForms(ResolveCollection(store, relation),
                              Get(holder, ForeignKey(relation))))

\* C19: at every level a record is looked up by its foreign key as it is,
\* then as a string, then as a number, the first hit being taken: a string
\* key whose numeric value is a record's numeric id, and a numeric key whose
\* string form is a record's string id, resolve to that record.
C19_ThreeFormsAtEveryLevel ==
    (Done /\ wrapped /\ layer = "json" /\ hasDb /\ foreignKeySuffix = FkSuffix) =>
      \A i \in 1..Len(OutRecords) : \A j \in 1..Len(DirectivesOf(originalUrl)) :
        Bind(Split(DirectivesOf(originalUrl)[j]), LAMBDA segments :
          /\ FoundInSomeForm(db, OutRecords[i], segments[1])
                => CarriesFound(db, OutRecords[i], segments[1])
          /\ (/\ Len(segments) > 1
              /\ IsObj(Get(OutRecords[i], segments[1]))
              /\ FoundInSomeForm(db, Get(OutRecords[i], segments[1]), segments[2]))
                => CarriesFound(db, Get(OutRecords[i], segments[1]), segments[2]))

\* The relations of the first level of `tree` under which `item` arrives
\* with the record its foreign key resolves to already attached.
PreAttached(item, tree, store) ==
    { tree[n].k : n \in { m \in 1..Len(tree) :
        /\ IsObj(item)
        /\ IsObj(Get(item, tree[m].k))
        /\ Truthy(Get(item, ForeignKey(tree[m].k)))
        /\ Get(item, tree[m].k) =
             LookupTop(ResolveCollection(store, tree[m].k),
                       Get(item, ForeignKey(tree[m].k))) } }

\* The item without the objects under `keys`.
Unattached(item, keys) == Obj([f \in DOMAIN item.v \ keys |-> item.v[f]])

\* C20: an item that arrives with the record of relation A already attached
\* is expanded to the same result as the same item arriving without it; the
\* relations below A are resolved with the same collection names and the
\* same id coercions in both cases.
C20_PreAttachedAsUnattached ==
    (Done /\ Intercepts(wrapped, body, contentType, nestedExpands, hasDb)) =>
      \A i \in 1..Len(TopItems) :
        PreAttached(TopItems[i], nestedExpands.tree, db) # {} =>
          ProcessNestedExpandsForItem(TopItems[i], nestedExpands.tree, db, 0) =
            ProcessNestedExpandsForItem(
                Unattached(TopItems[i], PreAttached(TopItems[i], nestedExpands.tree, db)),
                nestedExpands.tree, db, 0)

\* No directive of the request has a residual under the relation.
OnlyBare(directives, relation) ==
    \A j \in 1..Len(directives) : Split(directives[j])[1] = relation => ~HasDot(directives[j])

\* C21: in an intercepted request, every directive without a dot has its
\* relation in the expansion tree, with no residual when no other directive
\* gives it one, also next to a dotted directive for another relation; the
\* engine then attaches the relation and goes no further down.
C21_BareDirectiveRegistered ==
    (pc # "received" /\ wrapped) =>
      \A j \in 1..Len(DirectivesOf(originalUrl)) :
        Bind(DirectivesOf(originalUrl)[j], LAMBDA directive :
          ~HasDot(directive) =>
            /\ TreeHas(nestedExpands.tree, directive)
            /\ OnlyBare(DirectivesOf(originalUrl), directive)
                 => TreeGet(nestedExpands.tree, directive) = <<>>)

\* Resolving the relation on the holder fails: the holder has the foreign
\* key, and no candidate collection holds records or none of its records
\* has that id.
FailsOn(store, holder, relation) ==
    /\ IsObj(holder)
    /\ Get(holder, ForeignKey(relation)) # Undefined
    /\ NoCandidate(store, relation) \/ Dangling(store, holder, relation)

\* The two holders agree on every field but `key`.
AgreeBut(one, other, key) ==
    /\ IsObj(one) = IsObj(other)
    /\ IsObj(one) => \A f \in (DOMAIN one.v \cup DOMAIN other.v) \ {key} :
                        Get(one, f) = Get(other, f)

\* C22: when resolving the relation of a directive fails on a record, at the
\* first or at the second segment, only that attachment is missing: every
\* other field of the record, and under the same parent every other field of
\* the parent, is as in the response to the request without that directive,
\* and every record of a sequence is the expansion of that record alone.
C22_FailureSkipsOnlyItself ==
    (Done /\ Intercepts(wrapped, body, contentType, nestedExpands, hasDb)) =>
      \A i \in 1..Len(OutRecords) : \A j \in 1..Len(DirectivesOf(originalUrl)) :
        Bind(Split(DirectivesOf(originalUrl)[j]), LAMBDA segments :
          (\/ FailsOn(db, OutRecords[i], segments[1])
           \/ /\ Len(segments) > 1
              /\ FailsOn(db, Get(OutRecords[i], segments[1]), segments[2])) =>
            Bind(Respond(db, method, WithoutDirective(originalUrl, j), routerView),
                 LAMBDA alone :
                    /\ status = alone.status
                    /\ Len(RecordsOf(alone.sent)) = Len(OutRecords)
                    /\ AgreeBut(OutRecords[i], RecordsOf(alone.sent)[i], segments[1])
                    /\ FailsOn(db, OutRecords[i], segments[1])
                         => Get(OutRecords[i], segments[1]) = Undefined
                    /\ (~FailsOn(db, OutRecords[i], segments[1])
                        /\ IsObj(Get(RecordsOf(alone.sent)[i], segments[1])))
                         => AgreeBut(Get(OutRecords[i], segments[1]),
                                     Get(RecordsOf(alone.sent)[i], segments[1]),
                                     segments[2])
                    /\ \A k \in 1..Len(OutRecords) :
                          OutRecords[k] =
                            ProcessNestedExpandsForItem(TopItems[k], nestedExpands.tree,
                                                        db, 0)))

\* A relation under an attached parent could not be resolved, and another
\* relation under the same parent is attached.
C22_SiblingUnderParentAttached ==
    /\ Done
    /\ Intercepts(wrapped, body, contentType, nestedExpands, hasDb)
    /\ \E i \in 1..Len(OutRecords) :
          /\ FailsOn(db, Get(OutRecords[i], RelA), City)
          /\ Get(Get(OutRecords[i], RelA), City) = Undefined
          /\ IsObj(Get(Get(OutRecords[i], RelA), RelB))

\* The record of the collection whose id, as a string, is that of the key.
Matching(coll, fk) ==
    { k \in 1..Len(coll) : JsString(Get(coll[k], IdKey)) = JsString(fk) }

\* C23: a foreign key is present when the field is there: whenever the
\* record has the field for the first segment of a directive, whatever its
\* value (0 and the empty string included), and a record of the resolved
\* collection has that id, the relation is attached.
C23_PresentKeyAttached ==
    (Done /\ Intercepts(wrapped, body, contentType, nestedExpands, hasDb)) =>
      \A i \in 1..Len(OutRecords) : \A j \in 1..Len(DirectivesOf(originalUrl)) :
        Bind(Split(DirectivesOf(originalUrl)[j])[1], LAMBDA relation :
          (/\ Get(OutRecords[i], ForeignKey(relation)) # Undefined
           /\ Matching(ResolveCollection(db, relation),
                       Get(OutRecords[i], ForeignKey(relation))) # {}) =>
             \E k \in Matching(ResolveCollection(db, relation),
                               Get(OutRecords[i], ForeignKey(relation))) :
                Carries(OutRecords[i], relation, ResolveCollection(db, relation)[k]))

\* `s` begins with `prefix`.
StartsWith(s, prefix) ==
    Len(prefix) <= Len(s) /\ SubSeq(s, 1, Len(prefix)) = prefix

\* A renaming of the relations state and country to estate and county,
\* names of the same plural shape: applied to a relation, a collection
\* (states, countries) or a field (stateId, countryId).
Rename(name) ==
    IF StartsWith(name, StateName) THEN <<"e">> \o name
    ELSE IF StartsWith(name, DropLast(CountryName))
    THEN <<"c", "o", "u", "n", "t">> \o SubSeq(name, Len(CountryName), Len(name))
    ELSE name

RECURSIVE RenamedValue(_)
\* A document with every field renamed, at every depth.
RenamedValue(x) ==
    IF x.t = "obj"
    THEN Obj([g \in { Rename(f) : f \in DOMAIN x.v } |->
                 RenamedValue(x.v[CHOOSE f \in DOMAIN x.v : Rename(f) = g])])
    ELSE IF x.t = "arr" THEN Arr([k \in 1..Len(x.v) |-> RenamedValue(x.v[k])])
    ELSE x

\* The store with its collections and the fields of its records renamed.
RenamedStore(store) ==
    [g \in { Rename(n) : n \in DOMAIN store } |->
        Bind(CHOOSE n \in DOMAIN store : Rename(n) = g, LAMBDA n :
             [k \in 1..Len(store[n]) |-> RenamedValue(store[n][k])])]

\* The request with the segments of its directives renamed.
RenamedUrl(u) ==
    UrlOf(PathOf(u),
          [j \in 1..Len(DirectivesOf(u)) |->
              Bind(Split(DirectivesOf(u)[j]), LAMBDA segments :
                   Join([k \in 1..Len(segments) |-> Rename(segments[k])]))])

\* C24: the expansion treats every relation name alike: the request and the
\* store with the relations state and country consistently renamed are
\* answered with the renamed answer.
C24_RenamingInvariant ==
    (Done /\ layer = "json" /\ hasDb /\ foreignKeySuffix = FkSuffix) =>
       Bind(Respond(RenamedStore(db), method, RenamedUrl(originalUrl), routerView),
            LAMBDA renamed : /\ renamed.status = status
                             /\ renamed.sent.json = sent.json
                             /\ renamed.sent.val = RenamedValue(sent.val))

\* The query of a URL: what follows its first question mark.
QueryOf(u) ==
    IF \A i \in 1..Len(u) : u[i] # "?" THEN <<>>
    ELSE SubSeq(u, Len(SplitOn(u, "?")[1]) + 2, Len(u))

\* The parameters of a URL other than _expand, in order.
OtherParams(u) == SelectSeq(SearchParams(QueryOf(u)), LAMBDA p : p.k # ExpandKey)

\* The _expand parameters of a URL, in order.
ExpandParams(u) == GetAllExpand(SearchParams(QueryOf(u)))

\* `short` lists the members of `long` once each, in the order in which they
\* first appear in `long`.
OnceInOrder(short, long) ==
    /\ \A a, b \in 1..Len(short) : a # b => short[a] # short[b]
    /\ \A i \in 1..Len(long) : InSeq(short, long[i])
    /\ \A a \in 1..Len(short) : InSeq(long, short[a])
    /\ \A a, b \in 1..Len(short) :
          a < b => \E i \in 1..Len(long) :
                      /\ long[i] = short[a]
                      /\ \A k \in 1..i : long[k] # short[b]

\* C25: after the request phase of an intercepted request the rewritten URL
\* has the path of the original, every parameter of the original other than
\* _expand with its value and in the same relative order, and as _expand
\* parameters the first segments of the original directives, once each in
\* order of first appearance; the residual of every dotted directive is
\* stored on the request.
C25_RewrittenUrl ==
    (pc = "routing" /\ wrapped) =>
       /\ SplitOn(url, "?")[1] = SplitOn(originalUrl, "?")[1]
       /\ OtherParams(url) = OtherParams(originalUrl)
       /\ OnceInOrder(ExpandParams(url),
                      [j \in 1..Len(ExpandParams(originalUrl)) |->
                          Split(ExpandParams(originalUrl)[j])[1]])
       /\ nestedExpands.present
       /\ \A j \in 1..Len(ExpandParams(originalUrl)) :
             Bind(Split(ExpandParams(originalUrl)[j]), LAMBDA segments :
                  Len(segments) > 1 =>
                     /\ TreeHas(nestedExpands.tree, segments[1])
                     /\ InSeq(TreeGet(nestedExpands.tree, segments[1]),
                              Join(Tail(segments))))

\* C26: with two requests in flight, their phases interleaved in any order,
\* each response is the response the same request gets when it is served
\* alone over the same store: nothing of one request reaches the other.
C26_AsServedAlone ==
    /\ pc = "done" =>
          Bind(Respond(db, method, originalUrl, routerView), LAMBDA alone :
               status = alone.status /\ sent = alone.sent)
    /\ inflight.pc = "done" =>
          Bind(Respond(db, inflight.method, inflight.originalUrl, routerView),
               LAMBDA alone : inflight.status = alone.status /\ inflight.sent = alone.sent)

\* Two different intercepted requests are both answered, each having waited
\* between its phases while the other one ran.
C26_BothAnsweredInterleaved ==
    /\ pc = "done"
    /\ inflight.pc = "done"
    /\ originalUrl # inflight.originalUrl
    /\ wrapped
    /\ inflight.wrapped
    /\ inflight.suspended
    /\ inflight.otherSuspended
    /\ sent # body
    /\ inflight.sent # inflight.body

\* The request is not a GET, or none of its _expand parameters has a dot.
NotNested ==
    \/ method # "GET"
    \/ \A j \in 1..Len(ExpandParams(originalUrl)) : ~HasDot(ExpandParams(originalUrl)[j])

\* C27: for a request that is not a GET, or whose _expand parameters have no
\* dot, the only step of the middleware is the call of the next handler:
\* the URL of the request is as it came, no expansion tree is stored and send
\* is not overridden.
C27_PassesUntouched ==
    [][NotNested => /\ pc = "received"
                    /\ pc' = "routing"
                    /\ url' = originalUrl
                    /\ nestedExpands' = NoTree
                    /\ wrapped' = FALSE]_vars

\* A POST with a dotted directive has gone through the middleware.
C27_PostWithDirectivePassed ==
    /\ pc = "routing"
    /\ method = "POST"
    /\ \E j \in 1..Len(ExpandParams(originalUrl)) : HasDot(ExpandParams(originalUrl)[j])
    /\ ~wrapped

\* The attached object is the record, apart from the relations attached
\* further inside it.
IsRecord(attached, record) ==
    /\ \A f \in DOMAIN record.v : Get(attached, f) = record.v[f]
    /\ \A f \in DOMAIN attached.v : f \in DOMAIN record.v \/ f \in Relations

\* The id is the key: as strings, or as numbers.
IdMatches(id, fk) == JsString(id) = JsString(fk) \/ id = JsNumber(fk)

\* The object under the relation is a record of one of the relation's
\* candidate collections whose id is the holder's foreign key.
FromStore(store, holder, relation) ==
    \E c \in 1..Len(Candidates(relation)) :
       \E k \in 1..Size(DbGet(store, Candidates(relation)[c])) :
          Bind(DbGet(store, Candidates(relation)[c])[k], LAMBDA record :
               /\ IsRecord(Get(holder, relation), record)
               /\ IdMatches(Get(record, IdKey), Get(holder, ForeignKey(relation))))

RECURSIVE Sound(_, _)
\* Every object under a relation, at every depth of the holder, is from
\* the store.
Sound(store, holder) ==
    \A relation \in Relations :
       IsObj(Get(holder, relation)) =>
          /\ FromStore(store, holder, relation)
          /\ Sound(store, Get(holder, relation))

\* C28: every object attached under a relation R inside a record, at every
\* depth of every record processed or answered, is (apart from what is
\* attached further inside it) a record the store holds in one of R's
\* candidate collections, with the id the holder's RId names: never a
\* record of another relation, of another id, or one the store does not hold.
C28_AttachedFromStore ==
    /\ \A k \in 1..Len(stack) : IsObj(stack[k].result) => Sound(db, stack[k].result)
    /\ \A i \in 1..Len(processed) : IsObj(processed[i]) => Sound(db, processed[i])
    /\ \A i \in 1..Len(OutRecords) : Sound(db, OutRecords[i])

\* The engine has attached records at three levels of an answered record.
C28_AttachedThreeDeep ==
    /\ Done
    /\ wrapped
    /\ \E i \in 1..Len(OutRecords) :
          /\ NestDepth(OutRecords[i]) >= 3
          /\ NestDepth(JsonParse(body)) < 3

====
